---- MODULE Spec2Model ----
(***************************************************************************)
(* Order-book matching engine (src/src/lib.rs): RiskEngine, OrderBook and  *)
(* MatchingEngine as a state machine.                                      *)
(*                                                                         *)
(* Numbers.  Prices, quantities and position limits are u64 in the source. *)
(* A u64 is kept here as three limbs <<hi, mid, lo>> in base PRECISION,    *)
(* worth hi * PRECISION^2 + mid * PRECISION + lo, so that MAX_PRICE and    *)
(* u64::MAX have their source values; sums are computed exactly and then   *)
(* wrapped at 2^64, or make the call unwind where the build checks         *)
(* overflow.  Order ids, user ids and rate credits are plain integers.     *)
(*                                                                         *)
(* Handles.  The arena is a slab: a vector of entries, the vacant ones     *)
(* chained in a LIFO free list, handles counted from 0.                    *)
(***************************************************************************)
EXTENDS Integers, Sequences, FiniteSets, TLC

\* ------------------------------------------------------------------ u64

PRECISION == 100000000

\* the base of the limbs
Limb == PRECISION

\* the u64 of a number below 2^31
U64(n) == <<0, n \div Limb, n % Limb>>

\* n * PRECISION, n below 2^31
Units(n) == <<n \div Limb, n % Limb, 0>>

Zero == <<0, 0, 0>>

\* u64::MAX = 18446744073709551615
U64_MAX == <<1844, 67440737, 9551615>>

u64_lt(a, b) ==
    \/ a[1] < b[1]
    \/ a[1] = b[1] /\ a[2] < b[2]
    \/ a[1] = b[1] /\ a[2] = b[2] /\ a[3] < b[3]

u64_le(a, b) == a = b \/ u64_lt(a, b)

u64_gt(a, b) == u64_lt(b, a)

u64_ge(a, b) == u64_le(b, a)

\* a + b as a number: the top limb is not bounded
u64_add(a, b) ==
    LET lo == a[3] + b[3]
        mid == a[2] + b[2] + (lo \div Limb)
    IN <<a[1] + b[1] + (mid \div Limb), mid % Limb, lo % Limb>>

\* a - b, for a >= b
u64_sub(a, b) ==
    LET lo == a[3] - b[3]
        mid == a[2] - b[2] + (lo \div Limb)
    IN <<a[1] - b[1] + (mid \div Limb), mid % Limb, lo % Limb>>

\* a % PRECISION
u64_rem(a) == a[3]

u64_min(a, b) == IF u64_le(a, b) THEN a ELSE b

\* the number fits a u64
u64_fits(a) == u64_le(a, U64_MAX)

\* a number reduced modulo 2^64
RECURSIVE u64_wrap(_)
u64_wrap(a) ==
    IF u64_fits(a) THEN a ELSE u64_wrap(u64_sub(a, u64_add(U64_MAX, U64(1))))

\* the sum of a sequence of u64 as a number
RECURSIVE u64_sum(_)
u64_sum(s) == IF s = <<>> THEN Zero ELSE u64_add(Head(s), u64_sum(Tail(s)))

\* ------------------------------------------------------------------ constants

MIN_PRICE == Units(1)
MAX_PRICE == Units(1000000)
DEFAULT_RATE_CREDIT == 1000000000

\* ------------------------------------------------------------------ values

None == [some |-> FALSE]
Some(v) == [some |-> TRUE, val |-> v]

Order(id, user_id, side, price, qty, remaining, otype) ==
    [id |-> id, user_id |-> user_id, side |-> side, price |-> price,
     qty |-> qty, remaining |-> remaining, otype |-> otype]

Fill(maker_id, taker_id, price, qty) ==
    [maker_id |-> maker_id, taker_id |-> taker_id, price |-> price, qty |-> qty]

NoOrder == Order(0, 0, "-", Zero, Zero, Zero, "-")

Min2(a, b) == IF a <= b THEN a ELSE b

MinOf(S) == CHOOSE m \in S : \A x \in S : m <= x
MaxOf(S) == CHOOSE m \in S : \A x \in S : m >= x

\* the first and the last key of a BTreeMap<u64, _>
MinKey(S) == CHOOSE m \in S : \A x \in S : u64_le(m, x)
MaxKey(S) == CHOOSE m \in S : \A x \in S : u64_ge(m, x)

\* BTreeMap iteration: keys ascending (iter) and descending (iter().rev()).
RECURSIVE KeysAsc(_)
KeysAsc(S) == IF S = {} THEN <<>> ELSE LET m == MinKey(S) IN <<m>> \o KeysAsc(S \ {m})

RECURSIVE KeysDesc(_)
KeysDesc(S) == IF S = {} THEN <<>> ELSE LET m == MaxKey(S) IN <<m>> \o KeysDesc(S \ {m})

MapPut(f, k, v) == [x \in DOMAIN f \cup {k} |-> IF x = k THEN v ELSE f[x]]
MapDel(f, k) == [x \in DOMAIN f \ {k} |-> f[x]]
EmptyMap == [x \in {} |-> 0]

SeqRemoveAt(s, pos) == SubSeq(s, 1, pos - 1) \o SubSeq(s, pos + 1, Len(s))

\* ------------------------------------------------------------------ slab arena

\* Slab<Order>: entries[h + 1] is the entry of handle h; a vacant entry links to
\* the next vacant handle; next is the handle the next insert gets.
SlabNew == [entries |-> <<>>, next |-> 0]

SlabContains(slab, h) ==
    h >= 0 /\ h < Len(slab.entries) /\ ~slab.entries[h + 1].vacant

SlabGet(slab, h) == slab.entries[h + 1].order

SlabVacantKey(slab) == slab.next

SlabInsert(slab, order) ==
    LET key == slab.next
        e == [vacant |-> FALSE, link |-> 0, order |-> order]
    IN IF key = Len(slab.entries)
       THEN [entries |-> Append(slab.entries, e), next |-> key + 1]
       ELSE [entries |-> [slab.entries EXCEPT ![key + 1] = e],
             next |-> slab.entries[key + 1].link]

SlabRemove(slab, h) ==
    [entries |-> [slab.entries EXCEPT
                    ![h + 1] = [vacant |-> TRUE, link |-> slab.next, order |-> NoOrder]],
     next |-> h]

SlabSetRemaining(slab, h, r) ==
    [slab EXCEPT !.entries[h + 1].order.remaining = r]

SlabLive(slab) == {h \in 0..(Len(slab.entries) - 1) : ~slab.entries[h + 1].vacant}

\* ------------------------------------------------------------------ RiskEngine

RiskEngineNew == [position_limits |-> EmptyMap, rate_limits |-> EmptyMap]

\* true = over the limit (rejected)
\* a position check that also turns away a quantity equal to the limit
check_position_limit_inclusive(risk, user_id, qty) ==
    IF user_id \in DOMAIN risk.position_limits
    THEN u64_ge(qty, risk.position_limits[user_id])
    ELSE FALSE

check_position_limit(risk, user_id, qty) ==
    IF user_id \in DOMAIN risk.position_limits
    THEN u64_gt(qty, risk.position_limits[user_id])
    ELSE FALSE

\* the credit the check works on: the stored one, or the default on first use
RateEntry(risk, user_id) ==
    IF user_id \in DOMAIN risk.rate_limits
    THEN risk.rate_limits[user_id]
    ELSE DEFAULT_RATE_CREDIT

\* a rate check that lets every call through without a debit
check_rate_limit_unmetered(risk, user_id) ==
    [limited |-> FALSE,
     risk |-> [risk EXCEPT !.rate_limits = MapPut(@, user_id, RateEntry(risk, user_id))]]

\* [limited: true = rejected, risk: the engine afterwards]
check_rate_limit(risk, user_id) ==
    LET remaining == RateEntry(risk, user_id)
    IN IF remaining > 0
       THEN [limited |-> FALSE,
             risk |-> [risk EXCEPT !.rate_limits = MapPut(@, user_id, remaining - 1)]]
       ELSE [limited |-> TRUE,
             risk |-> [risk EXCEPT !.rate_limits = MapPut(@, user_id, remaining)]]

set_position_limit(risk, user_id, max_qty) ==
    [risk EXCEPT !.position_limits = MapPut(@, user_id, max_qty)]

set_rate_limit(risk, user_id, limit) ==
    [risk EXCEPT !.rate_limits = MapPut(@, user_id, limit)]

\* ------------------------------------------------------------------ OrderBook

OrderBookNew ==
    [bids |-> EmptyMap, asks |-> EmptyMap, orders |-> SlabNew, by_id |-> EmptyMap]

SideMap(book, side) == IF side = "Bid" THEN book.bids ELSE book.asks

WithSideMap(book, side, m) ==
    IF side = "Bid" THEN [book EXCEPT !.bids = m] ELSE [book EXCEPT !.asks = m]

\* add_to_book with the slip of resting the order at its original quantity
add_to_book_full_qty(book, order) ==
    LET idx == SlabVacantKey(book.orders)
        target == SideMap(book, order.side)
        queue == IF order.price \in DOMAIN target THEN target[order.price] ELSE <<>>
        b1 == [book EXCEPT !.orders = SlabInsert(@, [order EXCEPT !.remaining = order.qty]),
                           !.by_id = MapPut(@, order.id, idx)]
    IN WithSideMap(b1, order.side, MapPut(target, order.price, Append(queue, idx)))

add_to_book(book, order) ==
    LET idx == SlabVacantKey(book.orders)
        target == SideMap(book, order.side)
        queue == IF order.price \in DOMAIN target THEN target[order.price] ELSE <<>>
        b1 == [book EXCEPT !.orders = SlabInsert(@, order),
                           !.by_id = MapPut(@, order.id, idx)]
    IN WithSideMap(b1, order.side, MapPut(target, order.price, Append(queue, idx)))

\* a removal that frees the arena record and leaves the id in by_id
remove_order_keeps_id(book, id) ==
    IF id \in DOMAIN book.by_id
    THEN [book EXCEPT !.orders = SlabRemove(@, book.by_id[id])]
    ELSE book

remove_order(book, id) ==
    IF id \in DOMAIN book.by_id
    THEN [book EXCEPT !.by_id = MapDel(@, id),
                      !.orders = SlabRemove(@, book.by_id[id])]
    ELSE book

\* would_match with the slip of a strict comparison
would_match_strict(book, incoming) ==
    IF incoming.side = "Bid"
    THEN IF DOMAIN book.asks = {} THEN FALSE
         ELSE u64_gt(incoming.price, MinKey(DOMAIN book.asks))
    ELSE IF DOMAIN book.bids = {} THEN FALSE
         ELSE u64_lt(incoming.price, MaxKey(DOMAIN book.bids))

would_match(book, incoming) ==
    IF incoming.side = "Bid"
    THEN IF DOMAIN book.asks = {} THEN FALSE
         ELSE u64_ge(incoming.price, MinKey(DOMAIN book.asks))
    ELSE IF DOMAIN book.bids = {} THEN FALSE
         ELSE u64_le(incoming.price, MaxKey(DOMAIN book.bids))


saturating_sub(a, b) == IF u64_gt(a, b) THEN u64_sub(a, b) ELSE Zero

\* every handle of the queue resolves in the arena (indexing a vacant handle panics)
QueueResolves(book, queue) ==
    \A i \in 1..Len(queue) : SlabContains(book.orders, queue[i])

\* queue.iter().map(|&idx| self.orders[idx].remaining)
level_remainings(book, queue) ==
    [i \in 1..Len(queue) |-> SlabGet(book.orders, queue[i]).remaining]

\* the u64 sum of the level does not fit: with overflow checks (the dev
\* profile) sum() unwinds, without them (the release profile) it wraps
level_overflows(book, queue) == ~u64_fits(u64_sum(level_remainings(book, queue)))

\* queue.iter().map(|&idx| self.orders[idx].remaining).sum(), as it wraps
level_qty(book, queue) == u64_wrap(u64_sum(level_remainings(book, queue)))

\* a level whose sum is taken makes the call unwind: a vacant handle, or a
\* sum that overflows under overflow checks
level_unwinds(book, queue, overflow_checks) ==
    \/ ~QueueResolves(book, queue)
    \/ overflow_checks /\ level_overflows(book, queue)

\* the opposite side's levels in matching order: asks ascending for a Bid,
\* bids descending for an Ask
OppositeMap(book, side) == IF side = "Bid" THEN book.asks ELSE book.bids

\* MatchingOrder with the slip of walking the asks from the highest price
MatchingOrder_asks_rev(book, side) ==
    IF side = "Bid" THEN KeysDesc(DOMAIN book.asks) ELSE KeysDesc(DOMAIN book.bids)

MatchingOrder(book, side) ==
    IF side = "Bid" THEN KeysAsc(DOMAIN book.asks) ELSE KeysDesc(DOMAIN book.bids)

\* a price guard that also trips at the taker's own limit
price_unacceptable_at_limit(side, incoming_price, book_price) ==
    IF side = "Bid" THEN u64_le(incoming_price, book_price)
    ELSE u64_ge(incoming_price, book_price)

\* the taker's price is worse than the level's: incoming.price < book_price for
\* a Bid, incoming.price > book_price for an Ask
price_unacceptable(side, incoming_price, book_price) ==
    IF side = "Bid" THEN u64_lt(incoming_price, book_price)
    ELSE u64_gt(incoming_price, book_price)

\* [panic, value]; overflow_checks: the profile the crate is built with
RECURSIVE can_full_match_scan(_, _, _, _, _, _)
can_full_match_scan(book, incoming, levels, i, remaining, overflow_checks) ==
    IF i > Len(levels) THEN [panic |-> FALSE, value |-> FALSE]
    ELSE LET price == levels[i]
             queue == OppositeMap(book, incoming.side)[price]
         IN IF price_unacceptable(incoming.side, incoming.price, price)
            THEN [panic |-> FALSE, value |-> FALSE]
            ELSE IF level_unwinds(book, queue, overflow_checks)
            THEN [panic |-> TRUE, value |-> FALSE]
            ELSE LET r == saturating_sub(remaining, level_qty(book, queue))
                 IN IF r = Zero THEN [panic |-> FALSE, value |-> TRUE]
                    ELSE can_full_match_scan(book, incoming, levels, i + 1, r,
                                             overflow_checks)

\* can_full_match with the slip of counting every level, acceptable or not
can_full_match_any_price(book, incoming, overflow_checks) ==
    LET m == OppositeMap(book, incoming.side)
        levels == MatchingOrder(book, incoming.side)
        total == u64_sum([i \in 1..Len(levels) |-> level_qty(book, m[levels[i]])])
    IN [panic |-> FALSE, value |-> levels # <<>> /\ u64_ge(total, incoming.remaining)]

\* a pre-scan that leaves the taker's own makers out of the count
can_full_match_skips_own(book, incoming, overflow_checks) ==
    LET m == OppositeMap(book, incoming.side)
        levels == SelectSeq(MatchingOrder(book, incoming.side),
                            LAMBDA p : ~price_unacceptable(incoming.side, incoming.price, p))
        others(queue) == SelectSeq(queue, LAMBDA h :
                            SlabGet(book.orders, h).user_id # incoming.user_id)
        total == u64_sum([i \in 1..Len(levels) |-> level_qty(book, others(m[levels[i]]))])
    IN [panic |-> FALSE, value |-> levels # <<>> /\ u64_ge(total, incoming.remaining)]

can_full_match(book, incoming, overflow_checks) ==
    can_full_match_scan(book, incoming, MatchingOrder(book, incoming.side), 1,
                        incoming.remaining, overflow_checks)

\* self-trade prevention: the maker is skipped
\* stp_skip with the check left out
stp_skip_never(incoming, maker) == FALSE

stp_skip(incoming, maker) == incoming.user_id = maker.user_id

fill_qty_of(incoming_remaining, maker_remaining) ==
    u64_min(incoming_remaining, maker_remaining)

\* the price a fill carries: the level's key
\* fill_price_of with the slip of pricing the fill at the taker's price
fill_price_of_taker(book_price, incoming) == incoming.price

fill_price_of(book_price, incoming) == book_price

\* the walk of one level's queue from the head.  st: [remaining (the taker's),
\* orders (the arena), fills, indices_to_remove, to_remove_orders, panic]
RECURSIVE queue_walk(_, _, _, _, _)
queue_walk(queue, pos, incoming, book_price, st) ==
    IF pos > Len(queue) \/ st.remaining = Zero \/ st.panic THEN st
    ELSE LET idx == queue[pos]
         IN IF ~SlabContains(st.orders, idx) THEN [st EXCEPT !.panic = TRUE]
            ELSE LET maker == SlabGet(st.orders, idx)
                 IN IF stp_skip(incoming, maker)
                    THEN queue_walk(queue, pos + 1, incoming, book_price, st)
                    ELSE LET fill_qty == fill_qty_of(st.remaining, maker.remaining)
                             maker_left == u64_sub(maker.remaining, fill_qty)
                             gone == maker_left = Zero
                             st1 == [st EXCEPT
                                 !.remaining = u64_sub(@, fill_qty),
                                 !.orders = SlabSetRemaining(@, idx, maker_left),
                                 !.fills = Append(@, Fill(maker.id, incoming.id,
                                              fill_price_of(book_price, incoming), fill_qty)),
                                 !.indices_to_remove =
                                     IF gone THEN Append(@, pos) ELSE @,
                                 !.to_remove_orders =
                                     IF gone THEN Append(@, maker.id) ELSE @]
                         IN queue_walk(queue, pos + 1, incoming, book_price, st1)

\* for &pos in indices_to_remove.iter().rev() { queue.remove(pos) }
RECURSIVE remove_positions(_, _)
remove_positions(queue, indices) ==
    IF indices = <<>> THEN queue
    ELSE remove_positions(SeqRemoveAt(queue, indices[Len(indices)]),
                          SubSeq(indices, 1, Len(indices) - 1))

\* the state of the level walk once a level's queue has been walked: the queue
\* without the makers filled in full, the level marked when nothing is left
after_queue(st, book_price, queue1, q) ==
    [remaining |-> q.remaining, orders |-> q.orders, fills |-> q.fills,
     to_remove_orders |-> q.to_remove_orders,
     prices_to_clean |-> IF queue1 = <<>> THEN Append(st.prices_to_clean, book_price)
                         ELSE st.prices_to_clean,
     map |-> [st.map EXCEPT ![book_price] = queue1],
     panic |-> FALSE]

\* the state of the level walk when the walk of a level's queue unwound: what
\* was written to the arena stays, the queue keeps every position
unwound_queue(st, q) ==
    [remaining |-> q.remaining, orders |-> q.orders, fills |-> q.fills,
     to_remove_orders |-> q.to_remove_orders,
     prices_to_clean |-> st.prices_to_clean,
     map |-> st.map,
     panic |-> TRUE]

walk_queue_of(st, book_price, queue, q) ==
    IF q.panic THEN unwound_queue(st, q)
    ELSE after_queue(st, book_price, remove_positions(queue, q.indices_to_remove), q)

\* the walk of the opposite side's levels, best first.  st: [remaining, orders,
\* fills, to_remove_orders, prices_to_clean, map (the opposite side), panic]
RECURSIVE level_walk(_, _, _, _, _)
level_walk(levels, i, incoming, ignore_price, st) ==
    IF i > Len(levels) \/ st.panic THEN st
    ELSE IF st.remaining = Zero THEN st
    ELSE IF ~ignore_price /\ price_unacceptable(incoming.side, incoming.price, levels[i])
    THEN st
    ELSE level_walk(levels, i + 1, incoming, ignore_price,
             walk_queue_of(st, levels[i], st.map[levels[i]],
                 queue_walk(st.map[levels[i]], 1, incoming, levels[i],
                     [remaining |-> st.remaining, orders |-> st.orders,
                      fills |-> st.fills, indices_to_remove |-> <<>>,
                      to_remove_orders |-> st.to_remove_orders,
                      panic |-> FALSE])))

\* for id in to_remove_orders { self.remove_order(id) }
RECURSIVE remove_orders(_, _)
remove_orders(book, ids) ==
    IF ids = <<>> THEN book ELSE remove_orders(remove_order(book, Head(ids)), Tail(ids))

\* a cleanup that removes the first emptied level only
clean_prices_first_only(map, prices) ==
    IF prices = <<>> THEN map ELSE MapDel(map, Head(prices))

RECURSIVE clean_prices(_, _)
clean_prices(map, prices) ==
    IF prices = <<>> THEN map ELSE clean_prices(MapDel(map, Head(prices)), Tail(prices))

\* the deferred removals: the filled makers leave the arena and by_id, the
\* emptied levels leave the side map
cleaned(book, opp, prices_to_clean) ==
    WithSideMap(book, opp, clean_prices(SideMap(book, opp), prices_to_clean))

\* the book the walk wrote to: the arena and the opposite side's queues
walked(book, opp, w) == WithSideMap([book EXCEPT !.orders = w.orders], opp, w.map)

\* a walk that unwound never reaches the deferred removals
match_finish(book, opp, w) ==
    [book |-> IF w.panic THEN walked(book, opp, w)
              ELSE cleaned(remove_orders(walked(book, opp, w), w.to_remove_orders),
                           opp, w.prices_to_clean),
     remaining |-> w.remaining, fills |-> w.fills, panic |-> w.panic]

\* [book, remaining (the taker's afterwards), fills, panic]
match_order(book, incoming, ignore_price) ==
    match_finish(book, IF incoming.side = "Bid" THEN "Ask" ELSE "Bid",
        level_walk(MatchingOrder(book, incoming.side), 1, incoming, ignore_price,
            [remaining |-> incoming.remaining, orders |-> book.orders,
             fills |-> <<>>, to_remove_orders |-> <<>>,
             prices_to_clean |-> <<>>, map |-> OppositeMap(book, incoming.side),
             panic |-> FALSE]))

\* the routing of an order that passed the checks; risk is the risk engine
\* after the rate debit.  A call that unwinds returns nothing: it leaves the
\* debit and what the match had written
route(book, risk, order, overflow_checks) ==
    LET outcome(m, rests) ==
            IF m.panic
            THEN [result |-> "Panic", fills |-> <<>>, book |-> m.book, risk |-> risk]
            ELSE [result |-> "Ok", fills |-> m.fills,
                  book |-> IF rests /\ u64_gt(m.remaining, Zero)
                           THEN add_to_book(m.book, [order EXCEPT !.remaining = m.remaining])
                           ELSE m.book,
                  risk |-> risk]
        unmatched == [book |-> book, remaining |-> order.qty, fills |-> <<>>,
                      panic |-> FALSE]
    IN CASE order.otype = "Market" -> outcome(match_order(book, order, TRUE), FALSE)
         [] order.otype = "Limit" -> outcome(match_order(book, order, FALSE), TRUE)
         [] order.otype \in {"PostOnly", "MakerOnly"} ->
              IF would_match(book, order)
              THEN outcome(unmatched, FALSE)
              ELSE [result |-> "Ok", fills |-> <<>>,
                    book |-> add_to_book(book, order), risk |-> risk]
         [] order.otype = "IOC" -> outcome(match_order(book, order, FALSE), FALSE)
         [] order.otype = "FOK" ->
              LET c == can_full_match(book, order, overflow_checks)
              IN IF c.panic
                 THEN outcome([unmatched EXCEPT !.panic = TRUE], FALSE)
                 ELSE IF c.value
                 THEN outcome(match_order(book, order, FALSE), FALSE)
                 ELSE outcome(unmatched, FALSE)

\* a validation that forgets the upper end of the price range
out_of_range_no_max(price, qty) ==
    u64_rem(price) # 0 \/ u64_rem(qty) # 0 \/ u64_lt(price, MIN_PRICE)

\* the validation of a submit
out_of_range(price, qty) ==
    u64_rem(price) # 0 \/ u64_rem(qty) # 0 \/ u64_lt(price, MIN_PRICE)
       \/ u64_gt(price, MAX_PRICE)

rejected(error, book, risk) ==
    [result |-> error, fills |-> <<>>, book |-> book, risk |-> risk]

\* the rate gate and what follows it
gated(book, rate, order, overflow_checks) ==
    IF rate.limited
    THEN rejected("RateLimit", book, rate.risk)
    ELSE route(book, rate.risk, order, overflow_checks)

\* a submit that routes the order before it looks at the rate gate's answer
submit_routes_before_gate(book, risk, id, user_id, otype, side, price, qty, overflow_checks) ==
    IF out_of_range(price, qty)
    THEN rejected("PriceOutOfRange", book, risk)
    ELSE IF check_position_limit(risk, user_id, qty)
    THEN rejected("PositionLimit", book, risk)
    ELSE LET rate == check_rate_limit(risk, user_id)
             r == route(book, rate.risk,
                        Order(id, user_id, side, price, qty, qty, otype), overflow_checks)
         IN IF rate.limited /\ r.result = "Ok"
            THEN rejected("RateLimit", r.book, rate.risk)
            ELSE r

\* [result, fills, book, risk]; result "Panic": the call unwound
submit(book, risk, id, user_id, otype, side, price, qty, overflow_checks) ==
    IF out_of_range(price, qty)
    THEN rejected("PriceOutOfRange", book, risk)
    ELSE IF check_position_limit(risk, user_id, qty)
    THEN rejected("PositionLimit", book, risk)
    ELSE gated(book, check_rate_limit(risk, user_id),
               Order(id, user_id, side, price, qty, qty, otype), overflow_checks)

\* a search that answers with the front of the queue
position_from_front(queue, idx, i) == IF i > Len(queue) THEN 0 ELSE i

\* queue.iter().position(|&i| i == idx): 0 when absent
RECURSIVE position_from(_, _, _)
position_from(queue, idx, i) ==
    IF i > Len(queue) THEN 0
    ELSE IF queue[i] = idx THEN i ELSE position_from(queue, idx, i + 1)

\* [book, order: Some(descriptor) | None]
cancel(book, id) ==
    IF id \in DOMAIN book.by_id
    THEN LET idx == book.by_id[id]
             order == SlabGet(book.orders, idx)
             target == SideMap(book, order.side)
             target1 ==
                 IF order.price \in DOMAIN target
                 THEN LET queue == target[order.price]
                          pos == position_from(queue, idx, 1)
                          queue1 == IF pos > 0 THEN SeqRemoveAt(queue, pos) ELSE queue
                      IN IF queue1 = <<>> THEN MapDel(target, order.price)
                         ELSE [target EXCEPT ![order.price] = queue1]
                 ELSE target
         IN [book |-> remove_order(WithSideMap(book, order.side, target1), id),
             order |-> Some(order)]
    ELSE [book |-> book, order |-> None]

\* a modify that writes the new quantity to qty and leaves remaining
modify_keeps_remaining(book, id, new_price, new_qty) ==
    LET c == cancel(book, id)
    IN IF c.order.some
       THEN LET o1 == IF new_price.some THEN [c.order.val EXCEPT !.price = new_price.val]
                      ELSE c.order.val
                o2 == IF new_qty.some THEN [o1 EXCEPT !.qty = new_qty.val] ELSE o1
            IN add_to_book(c.book, o2)
       ELSE book

modify(book, id, new_price, new_qty) ==
    LET c == cancel(book, id)
    IN IF c.order.some
       THEN LET o1 == IF new_price.some THEN [c.order.val EXCEPT !.price = new_price.val]
                      ELSE c.order.val
                o2 == IF new_qty.some
                      THEN [o1 EXCEPT !.qty = new_qty.val, !.remaining = new_qty.val]
                      ELSE o1
            IN add_to_book(c.book, o2)
       ELSE book

RECURSIVE batch_submit_until_rejected(_, _, _, _)
\* a batch that ends at its first rejected order
batch_submit_until_rejected(book, risk, orders, overflow_checks) ==
    IF orders = <<>>
    THEN [results |-> <<>>, book |-> book, risk |-> risk, panic |-> FALSE]
    ELSE LET o == Head(orders)
             r == submit(book, risk, o.id, o.user_id, o.otype, o.side, o.price, o.qty,
                         overflow_checks)
         IN IF r.result = "Panic"
            THEN [results |-> <<>>, book |-> r.book, risk |-> r.risk, panic |-> TRUE]
            ELSE IF r.result # "Ok"
            THEN [results |-> <<[result |-> r.result, fills |-> r.fills]>>,
                  book |-> r.book, risk |-> r.risk, panic |-> FALSE]
            ELSE LET rest == batch_submit_until_rejected(r.book, r.risk, Tail(orders),
                                                         overflow_checks)
                 IN IF rest.panic THEN rest
                    ELSE [rest EXCEPT !.results =
                            <<[result |-> r.result, fills |-> r.fills]>> \o @]

\* orders: a sequence of [id, user_id, otype, side, price, qty].
\* [results: one [result, fills] per order, book, risk, panic]; a batch one of
\* whose submits unwinds returns nothing and leaves what was written so far
RECURSIVE batch_submit(_, _, _, _)
batch_submit(book, risk, orders, overflow_checks) ==
    IF orders = <<>>
    THEN [results |-> <<>>, book |-> book, risk |-> risk, panic |-> FALSE]
    ELSE LET o == Head(orders)
             r == submit(book, risk, o.id, o.user_id, o.otype, o.side, o.price, o.qty,
                         overflow_checks)
         IN IF r.result = "Panic"
            THEN [results |-> <<>>, book |-> r.book, risk |-> r.risk, panic |-> TRUE]
            ELSE LET rest == batch_submit(r.book, r.risk, Tail(orders), overflow_checks)
                 IN IF rest.panic THEN rest
                    ELSE [rest EXCEPT !.results =
                            <<[result |-> r.result, fills |-> r.fills]>> \o @]

\* the levels a snapshot of this depth visits, best first
snapshot_levels(levels, depth) == SubSeq(levels, 1, Min2(depth, Len(levels)))

snapshot_side(book, levels, map) ==
    [i \in 1..Len(levels) |-> <<levels[i], level_qty(book, map[levels[i]])>>]

\* [panic, bids, asks]; overflow_checks: the profile the crate is built with
get_l2_snapshot(book, depth, overflow_checks) ==
    LET bl == snapshot_levels(KeysDesc(DOMAIN book.bids), depth)
        al == snapshot_levels(KeysAsc(DOMAIN book.asks), depth)
    IN IF (\E i \in 1..Len(bl) : level_unwinds(book, book.bids[bl[i]], overflow_checks))
          \/ (\E i \in 1..Len(al) : level_unwinds(book, book.asks[al[i]], overflow_checks))
       THEN [panic |-> TRUE, bids |-> <<>>, asks |-> <<>>]
       ELSE [panic |-> FALSE,
             bids |-> snapshot_side(book, bl, book.bids),
             asks |-> snapshot_side(book, al, book.asks)]


\* ------------------------------------------------------------------ bounds

\* resting orders a book may hold
MaxResting == 2
\* submits a user may make on the default credit
MaxDefaultSubmits == 1
\* the largest credit set_rate_limit is called with
MaxCredit == 2
\* resting orders the books hold together where the risk gates are studied
MaxRiskResting == 1
\* submits that name an id that is resting
MaxReuses == 1

Users == {1, 2}
Sides == {"Bid", "Ask"}
Ids == 1..(MaxResting + 1)
Symbol == "BTCUSDT"

\* ------------------------------------------------------------------ MatchingEngine

VARIABLES
    books,      \* MatchingEngine.books: symbol -> OrderBook
    risk,       \* MatchingEngine.risk
    last,       \* the call in progress at the caller: its arguments, what it
                \* returned and the state it started from; NoCall between calls
    panicked,   \* a call unwound (an arena index on a vacant handle, or a sum
                \* that overflows in a build with overflow checks)
    quota,      \* history: user -> [limit: the argument of the user's latest
                \* set_rate_limit, passed: the user's submits past the rate gate since]
    reused      \* history: the submits that named an id resting when they ran

vars == <<books, risk, last, panicked, quota, reused>>

NoCall == [op |-> "none"]

\* books.entry(symbol).or_insert_with(OrderBook::new)
BookOrNew(symbol) == IF symbol \in DOMAIN books THEN books[symbol] ELSE OrderBookNew

RestingCount(book) == Cardinality(SlabLive(book.orders))

\* the credit is one the model follows: at most MaxCredit, or within
\* MaxDefaultSubmits of the default
RateInWindow(user_id) ==
    LET c == RateEntry(risk, user_id)
    IN c <= MaxCredit \/ c > DEFAULT_RATE_CREDIT - MaxDefaultSubmits

Ready == ~panicked /\ last.op = "none"

\* 1 when the id names a resting order of the book
Reuses(book, id) == IF id \in DOMAIN book.by_id THEN 1 ELSE 0

\* a submit got past the rate gate
PassedGate(result) == result \notin {"PriceOutOfRange", "PositionLimit", "RateLimit"}

QuotaAfter(q, user_id, result) ==
    IF user_id \in DOMAIN q /\ PassedGate(result)
    THEN [q EXCEPT ![user_id].passed = @ + 1]
    ELSE q

Init ==
    /\ books = EmptyMap
    /\ risk = RiskEngineNew
    /\ last = NoCall
    /\ panicked = FALSE
    /\ quota = EmptyMap
    /\ reused = 0

\* the profiles the crate is built with: overflow checks on (dev) or off
\* (release); a call has the outcomes that the two builds produce
BuildProfiles == BOOLEAN

Submit(symbol, id, user_id, otype, side, price, qty) ==
    /\ Ready
    /\ RateInWindow(user_id)
    /\ \E r \in {submit(BookOrNew(symbol), risk, id, user_id, otype, side, price, qty,
                        overflow_checks) : overflow_checks \in BuildProfiles} :
        LET book0 == BookOrNew(symbol)
        IN /\ RestingCount(r.book) <= MaxResting
           /\ books' = MapPut(books, symbol, r.book)
           /\ risk' = r.risk
           /\ panicked' = (r.result = "Panic")
           /\ quota' = QuotaAfter(quota, user_id, r.result)
           /\ reused' = reused + Reuses(book0, id)
           /\ last' = [op |-> "submit", symbol |-> symbol, id |-> id, user_id |-> user_id,
                       otype |-> otype, side |-> side, price |-> price, qty |-> qty,
                       result |-> r.result, fills |-> r.fills,
                       pre |-> book0, pre_risk |-> risk, pre_quota |-> quota,
                       pre_books |-> books]

Cancel(symbol, id) ==
    /\ Ready
    /\ LET c == IF symbol \in DOMAIN books THEN cancel(books[symbol], id)
                ELSE [book |-> OrderBookNew, order |-> None]
       IN /\ books' = IF symbol \in DOMAIN books THEN MapPut(books, symbol, c.book)
                      ELSE books
          /\ last' = [op |-> "cancel", symbol |-> symbol, id |-> id,
                      returned |-> c.order, pre |-> BookOrNew(symbol), pre_risk |-> risk]
    /\ UNCHANGED <<risk, panicked, quota, reused>>

Modify(symbol, id, new_price, new_qty) ==
    /\ Ready
    /\ books' = IF symbol \in DOMAIN books
                THEN MapPut(books, symbol, modify(books[symbol], id, new_price, new_qty))
                ELSE books
    /\ last' = [op |-> "modify", symbol |-> symbol, id |-> id, new_price |-> new_price,
                new_qty |-> new_qty, pre |-> BookOrNew(symbol), pre_risk |-> risk]
    /\ UNCHANGED <<risk, panicked, quota, reused>>

\* the orders of a batch whose id is resting when their own submit runs
RECURSIVE batch_reuses(_, _, _, _)
batch_reuses_from(r, orders, overflow_checks) ==
    IF r.result = "Panic" THEN 0 ELSE batch_reuses(r.book, r.risk, orders, overflow_checks)

batch_reuses(book, rsk, orders, overflow_checks) ==
    IF orders = <<>> THEN 0
    ELSE Reuses(book, Head(orders).id)
         + batch_reuses_from(submit(book, rsk, Head(orders).id, Head(orders).user_id,
                                    Head(orders).otype, Head(orders).side,
                                    Head(orders).price, Head(orders).qty,
                                    overflow_checks),
                             Tail(orders), overflow_checks)

\* the quota after the submits of a batch, up to the one that unwinds
RECURSIVE quota_after_batch(_, _, _, _, _)
quota_after_batch(q, book, rsk, orders, overflow_checks) ==
    IF orders = <<>> THEN q
    ELSE LET o == Head(orders)
             r == submit(book, rsk, o.id, o.user_id, o.otype, o.side, o.price, o.qty,
                         overflow_checks)
             q1 == QuotaAfter(q, o.user_id, r.result)
         IN IF r.result = "Panic" THEN q1
            ELSE quota_after_batch(q1, r.book, r.risk, Tail(orders), overflow_checks)

BatchSubmit(symbol, orders) ==
    /\ Ready
    /\ \A i \in 1..Len(orders) : RateInWindow(orders[i].user_id)
    /\ IF symbol \in DOMAIN books
       THEN \E c \in {[b |-> batch_submit(books[symbol], risk, orders, overflow_checks),
                       quota |-> quota_after_batch(quota, books[symbol], risk, orders,
                                                   overflow_checks),
                       reuses |-> batch_reuses(books[symbol], risk, orders,
                                               overflow_checks)] :
                          overflow_checks \in BuildProfiles} :
            LET b == c.b
            IN /\ RestingCount(b.book) <= MaxResting
               /\ books' = MapPut(books, symbol, b.book)
               /\ risk' = b.risk
               /\ panicked' = b.panic
               /\ quota' = c.quota
               /\ reused' = reused + c.reuses
               /\ last' = [op |-> "batch_submit", symbol |-> symbol, orders |-> orders,
                           results |-> b.results, pre |-> books[symbol],
                           pre_risk |-> risk, pre_books |-> books]
       ELSE /\ last' = [op |-> "batch_submit", symbol |-> symbol, orders |-> orders,
                        results |-> <<>>, pre |-> OrderBookNew, pre_risk |-> risk,
                        pre_books |-> books]
            /\ UNCHANGED <<books, risk, panicked, quota, reused>>

Snapshot(symbol, depth, overflow_checks) ==
    /\ Ready
    /\ LET s == IF symbol \in DOMAIN books
                THEN Some(get_l2_snapshot(books[symbol], depth, overflow_checks))
                ELSE None
       IN /\ panicked' = (s.some /\ s.val.panic)
          /\ last' = [op |-> "snapshot", symbol |-> symbol, depth |-> depth,
                      returned |-> s, pre |-> BookOrNew(symbol), pre_risk |-> risk]
    /\ UNCHANGED <<books, risk, quota, reused>>

SetRateLimit(user_id, limit) ==
    /\ Ready
    /\ risk' = set_rate_limit(risk, user_id, limit)
    /\ quota' = MapPut(quota, user_id, [limit |-> limit, passed |-> 0])
    /\ last' = [op |-> "set_rate_limit", user_id |-> user_id, limit |-> limit,
                pre_risk |-> risk]
    /\ UNCHANGED <<books, panicked, reused>>

SetPositionLimit(user_id, max_qty) ==
    /\ Ready
    /\ risk' = set_position_limit(risk, user_id, max_qty)
    /\ last' = [op |-> "set_position_limit", user_id |-> user_id, max_qty |-> max_qty,
                pre_risk |-> risk]
    /\ UNCHANGED <<books, panicked, quota, reused>>

\* the caller takes the result and goes on to its next call
Return ==
    /\ ~panicked
    /\ last.op # "none"
    /\ last' = NoCall
    /\ UNCHANGED <<books, risk, panicked, quota, reused>>

\* ------------------------------------------------------------------ Spec: matching
\* One book, order ids unique among the resting orders, valid prices and
\* quantities, the four taker types; modify re-prices and re-sizes.

MatchTypes == {"Market", "Limit", "IOC", "FOK"}
MatchPrices == {Units(1), Units(2)}
MatchQtys == {Units(1), Units(2)}
OptPrices == {None} \cup {Some(p) : p \in MatchPrices}
OptQtys == {None, Some(Units(1))}

\* the caller numbers an order with the lowest id that is not resting
FreshId(symbol) == MinOf(Ids \ DOMAIN BookOrNew(symbol).by_id)

\* the configurator has every user's credit at MaxCredit: in this
\* specification it tops a credit up before the next call on the book
Funded == \A u \in Users : u \in DOMAIN risk.rate_limits /\ risk.rate_limits[u] = MaxCredit

NextSubmit ==
    /\ Funded
    /\ \E user_id \in Users, otype \in MatchTypes, side \in Sides,
          price \in MatchPrices, qty \in MatchQtys :
        /\ Submit(Symbol, FreshId(Symbol), user_id, otype, side, price, qty)

NextCancel == Funded /\ \E id \in Ids : Cancel(Symbol, id)

NextModify ==
    Funded /\ \E id \in Ids, new_price \in OptPrices, new_qty \in OptQtys :
        Modify(Symbol, id, new_price, new_qty)

NextSetRateLimit ==
    \E user_id \in Users :
        /\ RateEntry(risk, user_id) # MaxCredit
        /\ SetRateLimit(user_id, MaxCredit)

Next == NextSubmit \/ NextCancel \/ NextModify \/ NextSetRateLimit \/ Return

Spec == Init /\ [][Next]_vars


\* ------------------------------------------------------------------ vocabulary of the claims

Opposite(side) == IF side = "Bid" THEN "Ask" ELSE "Bid"

\* the places of a side's queues: level, position in the level's queue, handle held
Places(book, side) ==
    LET m == SideMap(book, side)
    IN UNION {{[price |-> p, pos |-> i, handle |-> m[p][i]] : i \in 1..Len(m[p])} :
              p \in DOMAIN m}

OrderAt(book, place) == SlabGet(book.orders, place.handle)

\* the places on either side that hold an order with this id
PlacesOfId(book, id) ==
    {e \in Places(book, "Bid") \cup Places(book, "Ask") :
        SlabContains(book.orders, e.handle) /\ OrderAt(book, e).id = id}

IsResting(book, id) == PlacesOfId(book, id) # {}

RECURSIVE FillTotal(_)
FillTotal(fills) ==
    IF fills = <<>> THEN Zero ELSE u64_add(Head(fills).qty, FillTotal(Tail(fills)))

\* a level price the taker accepts
Acceptable(otype, side, price, level) ==
    \/ otype = "Market"
    \/ side = "Bid" /\ u64_le(level, price)
    \/ side = "Ask" /\ u64_ge(level, price)

\* place a has priority over place b for a taker of this side
Before(side, a, b) ==
    \/ side = "Bid" /\ u64_lt(a.price, b.price)
    \/ side = "Ask" /\ u64_gt(a.price, b.price)
    \/ a.price = b.price /\ a.pos < b.pos

\* the makers a taker may trade with: opposite side, another owner, price accepted
Eligible(book, otype, side, user_id, price) ==
    {e \in Places(book, Opposite(side)) :
        /\ OrderAt(book, e).user_id # user_id
        /\ Acceptable(otype, side, price, e.price)}

SubmitOk == last.op = "submit" /\ last.result = "Ok"

\* the place in the book before the call of the maker of a fill
MakerPlace(fill) == CHOOSE e \in Places(last.pre, Opposite(last.side)) :
                        OrderAt(last.pre, e).id = fill.maker_id

\* ------------------------------------------------------------------ C1

\* C1: price-time priority.  Within one submit every fill is against an
\* eligible maker of the book the call started from; the fills run in strictly
\* descending priority (best price first, then earliest queue position); and
\* when a maker is filled, every eligible maker with priority over it has been
\* filled before, for all it had left.
C1_PriceTimePriority ==
    SubmitOk =>
        LET E == Eligible(last.pre, last.otype, last.side, last.user_id, last.price)
            f == last.fills
        IN /\ \A k \in 1..Len(f) :
                \E e \in E : OrderAt(last.pre, e).id = f[k].maker_id
           /\ \A j, k \in 1..Len(f) :
                j < k => Before(last.side, MakerPlace(f[j]), MakerPlace(f[k]))
           /\ \A k \in 1..Len(f) : \A e \in E :
                Before(last.side, e, MakerPlace(f[k])) =>
                    \E j \in 1..(k - 1) :
                        /\ f[j].maker_id = OrderAt(last.pre, e).id
                        /\ f[j].qty = OrderAt(last.pre, e).remaining

\* a taker filled by two makers queued at one price, the earlier one first
C1_Witness ==
    /\ SubmitOk
    /\ Len(last.fills) = 2
    /\ MakerPlace(last.fills[1]).price = MakerPlace(last.fills[2]).price
    /\ MakerPlace(last.fills[1]).pos = 1
    /\ MakerPlace(last.fills[2]).pos = 2


\* ------------------------------------------------------------------ C2

PostBook == books[last.symbol]

QueueAt(book, side, price) ==
    IF price \in DOMAIN SideMap(book, side) THEN SideMap(book, side)[price] ELSE <<>>

SeqRange(q) == {q[i] : i \in 1..Len(q)}

\* q1 is q0 with some handles taken out, the others in their order
Thinned(q0, q1) == q1 = SelectSeq(q0, LAMBDA h : h \in SeqRange(q1))

\* C2: self-trade prevention is a skip.  No fill of a submit is against a
\* maker of the taker's user; every maker of the taker's user on the opposite
\* side keeps its place's level, its record and its remaining; and the
\* opposite queues only lose handles, the ones left keeping their order.
C2_SelfTradeSkip ==
    SubmitOk =>
        LET opp == Opposite(last.side)
        IN /\ \A k \in 1..Len(last.fills) :
                OrderAt(last.pre, MakerPlace(last.fills[k])).user_id # last.user_id
           /\ \A e \in Places(last.pre, opp) :
                OrderAt(last.pre, e).user_id = last.user_id =>
                    /\ e.handle \in SeqRange(QueueAt(PostBook, opp, e.price))
                    /\ SlabContains(PostBook.orders, e.handle)
                    /\ SlabGet(PostBook.orders, e.handle) = OrderAt(last.pre, e)
                    /\ OrderAt(last.pre, e).id \in DOMAIN PostBook.by_id
                    /\ PostBook.by_id[OrderAt(last.pre, e).id] = e.handle
           /\ DOMAIN SideMap(PostBook, opp) \subseteq DOMAIN SideMap(last.pre, opp)
           /\ \A p \in DOMAIN SideMap(last.pre, opp) :
                Thinned(SideMap(last.pre, opp)[p], QueueAt(PostBook, opp, p))

\* the taker's own maker heads a level, is passed over, and the maker queued
\* behind it is filled
C2_Witness ==
    /\ SubmitOk
    /\ Len(last.fills) = 1
    /\ MakerPlace(last.fills[1]).pos = 2
    /\ \E e \in Places(last.pre, Opposite(last.side)) :
          /\ e.price = MakerPlace(last.fills[1]).price
          /\ e.pos = 1
          /\ OrderAt(last.pre, e).user_id = last.user_id
          /\ e.handle \in SeqRange(QueueAt(PostBook, Opposite(last.side), e.price))

\* ------------------------------------------------------------------ C3

\* no maker the taker would accept by price belongs to the taker's user
NoOwnAcceptable ==
    \A e \in Places(last.pre, Opposite(last.side)) :
        Acceptable(last.otype, last.side, last.price, e.price) =>
            OrderAt(last.pre, e).user_id # last.user_id

\* C3: FOK atomicity.  An FOK that passed the gates, none of the acceptable
\* makers being the taker's own, either fills for exactly qty or produces no
\* fill and leaves the book as it was; the FOK order itself never rests.
C3_FokAtomic ==
    (SubmitOk /\ last.otype = "FOK" /\ NoOwnAcceptable) =>
        /\ \/ FillTotal(last.fills) = last.qty
           \/ last.fills = <<>> /\ PostBook = last.pre
        /\ ~IsResting(PostBook, last.id)

\* an FOK filled in full by two makers
C3_Witness ==
    /\ SubmitOk
    /\ last.otype = "FOK"
    /\ NoOwnAcceptable
    /\ Len(last.fills) = 2
    /\ FillTotal(last.fills) = last.qty

\* ------------------------------------------------------------------ C5

\* C5: fill price.  Every fill carries the price field of its maker's record;
\* for a Limit, IOC or FOK taker that price is no worse than the taker's limit.
C5_FillPrice ==
    SubmitOk =>
        \A k \in 1..Len(last.fills) :
            LET f == last.fills[k]
            IN /\ f.price = OrderAt(last.pre, MakerPlace(f)).price
               /\ f.price = MakerPlace(f).price
               /\ last.otype \in {"Limit", "IOC", "FOK"} =>
                    IF last.side = "Bid" THEN u64_le(f.price, last.price)
                    ELSE u64_ge(f.price, last.price)

\* a limit taker filled at the maker's price, which is better than its own
C5_Witness ==
    /\ SubmitOk
    /\ last.otype = "Limit"
    /\ Len(last.fills) >= 1
    /\ last.fills[1].price # last.price
    /\ last.fills[1].price = OrderAt(last.pre, MakerPlace(last.fills[1])).price

\* ------------------------------------------------------------------ C6

\* C6: taker accounting.  The fills of a submit total at most qty.  A Limit
\* taker rests afterwards iff something is left, and then once, on its own
\* side at its price, last in the level's queue, with remaining qty minus the
\* fills and qty as submitted.  A Market, IOC or FOK taker never rests.
C6_TakerAccounting ==
    SubmitOk =>
        LET left == u64_sub(last.qty, FillTotal(last.fills))
            at == PlacesOfId(PostBook, last.id)
        IN /\ u64_le(FillTotal(last.fills), last.qty)
           /\ last.otype = "Limit" =>
                /\ IsResting(PostBook, last.id) <=> u64_gt(left, Zero)
                /\ u64_gt(left, Zero) =>
                    /\ at = {[price |-> last.price,
                              pos |-> Len(QueueAt(PostBook, last.side, last.price)),
                              handle |-> PostBook.by_id[last.id]]}
                    /\ at \subseteq Places(PostBook, last.side)
                    /\ SlabGet(PostBook.orders, PostBook.by_id[last.id]) =
                          Order(last.id, last.user_id, last.side, last.price,
                                last.qty, left, last.otype)
           /\ last.otype \in {"Market", "IOC", "FOK"} => ~IsResting(PostBook, last.id)

\* a limit taker partly filled, its remainder resting behind an order that was
\* already queued at its price
C6_Witness ==
    /\ SubmitOk
    /\ last.otype = "Limit"
    /\ u64_gt(FillTotal(last.fills), Zero)
    /\ u64_lt(FillTotal(last.fills), last.qty)
    /\ Len(QueueAt(PostBook, last.side, last.price)) = 2
    /\ IsResting(PostBook, last.id)


\* ------------------------------------------------------------------ SpecPost: resting types
\* One book, order ids unique among the resting orders; PostOnly and MakerOnly
\* orders of quantity zero or one unit; modify re-prices, which can cross the
\* book.

PostTypes == {"PostOnly", "MakerOnly"}
PostQtys == {Zero, Units(1)}

NextPostSubmit ==
    /\ Funded
    /\ \E user_id \in Users, otype \in PostTypes, side \in Sides,
          price \in MatchPrices, qty \in PostQtys :
        /\ Submit(Symbol, FreshId(Symbol), user_id, otype, side, price, qty)

NextPostModify ==
    Funded /\ \E id \in Ids, new_price \in OptPrices :
        Modify(Symbol, id, new_price, None)

NextPost == NextPostSubmit \/ NextCancel \/ NextPostModify \/ NextSetRateLimit \/ Return

SpecPost == Init /\ [][NextPost]_vars

\* ------------------------------------------------------------------ C4

\* the best opposite level exists and the price reaches it
Crosses(book, side, price) ==
    LET opp == DOMAIN SideMap(book, Opposite(side))
    IN opp # {} /\ IF side = "Bid" THEN u64_ge(price, MinKey(opp))
                   ELSE u64_le(price, MaxKey(opp))

\* the book with one more order last in the queue of its side's level; the
\* handle h is the one the arena gives out
Rested(book, order, h) ==
    /\ ~SlabContains(book.orders, h)
    /\ SlabLive(PostBook.orders) = SlabLive(book.orders) \cup {h}
    /\ \A g \in SlabLive(book.orders) :
          SlabGet(PostBook.orders, g) = SlabGet(book.orders, g)
    /\ SlabGet(PostBook.orders, h) = order
    /\ PostBook.by_id = MapPut(book.by_id, order.id, h)
    /\ SideMap(PostBook, Opposite(order.side)) = SideMap(book, Opposite(order.side))
    /\ SideMap(PostBook, order.side) =
          MapPut(SideMap(book, order.side), order.price,
                 Append(QueueAt(book, order.side, order.price), h))

\* C4: PostOnly never crosses.  A PostOnly or MakerOnly submit that passed the
\* gates returns Ok with no fill.  If its price crosses the best opposite level
\* the book is as before; otherwise the order rests last in the queue of its
\* side's level at its price with remaining = qty, nothing else changing.  The
\* other of the two types, submitted instead, returns the same and leaves the
\* same book but for the type recorded.
C4_PostOnlyNeverCrosses ==
    (last.op = "submit" /\ last.otype \in PostTypes
        /\ last.result \notin {"PriceOutOfRange", "PositionLimit", "RateLimit"}) =>
        /\ last.result = "Ok"
        /\ last.fills = <<>>
        /\ IF Crosses(last.pre, last.side, last.price)
           THEN PostBook = last.pre
           ELSE \E h \in 0..MaxResting :
                   Rested(last.pre,
                          Order(last.id, last.user_id, last.side, last.price,
                                last.qty, last.qty, last.otype), h)
        /\ LET other == CHOOSE t \in PostTypes : t # last.otype
               r == submit(last.pre, last.pre_risk, last.id, last.user_id, other,
                           last.side, last.price, last.qty, FALSE)
               retyped(b) == [b EXCEPT !.orders.entries =
                                [i \in DOMAIN @ |->
                                    IF @[i].order.otype = other /\ @[i].order.id = last.id
                                    THEN [@[i] EXCEPT !.order.otype = last.otype]
                                    ELSE @[i]]]
           IN /\ r.result = last.result
              /\ r.fills = last.fills
              /\ r.risk = risk
              /\ retyped(r.book) = PostBook

\* a PostOnly order that crosses a level that is not empty is dropped
C4_Witness ==
    /\ last.op = "submit"
    /\ last.otype = "PostOnly"
    /\ last.result = "Ok"
    /\ Crosses(last.pre, last.side, last.price)
    /\ u64_gt(last.qty, Zero)
    /\ PostBook = last.pre
    /\ RestingCount(last.pre) = 1

\* a MakerOnly order that does not cross rests behind the order queued at its price
C4_WitnessRests ==
    /\ last.op = "submit"
    /\ last.otype = "MakerOnly"
    /\ last.result = "Ok"
    /\ ~Crosses(last.pre, last.side, last.price)
    /\ Len(QueueAt(PostBook, last.side, last.price)) = 2
    /\ IsResting(PostBook, last.id)

\* ------------------------------------------------------------------ SpecRisk: validation and the risk gates
\* One book of at most MaxRiskResting orders; every order type; prices and
\* quantities on and off the grid and the range; user 1 with a position limit
\* and rate credits set by the configurator, user 2 topped up to MaxCredit.

AllTypes == {"Market", "Limit", "PostOnly", "MakerOnly", "IOC", "FOK"}
RiskPrices == {Zero, MIN_PRICE, u64_add(MIN_PRICE, U64(1)), MAX_PRICE,
               u64_add(MAX_PRICE, Units(1))}
RiskQtys == {Units(1), u64_add(Units(1), U64(1))}
RiskLimits == {Zero, Units(1)}
LimitedUsers == {1}

\* the credits the configurator sets for a user
Credits(user_id) == IF user_id \in LimitedUsers THEN {0, MaxCredit} ELSE {MaxCredit}

NextRiskSubmit ==
    \E user_id \in Users, otype \in AllTypes, side \in Sides,
       price \in RiskPrices, qty \in RiskQtys :
        /\ Submit(Symbol, FreshId(Symbol), user_id, otype, side, price, qty)
        /\ RestingCount(books'[Symbol]) <= MaxRiskResting

NextRiskSetRateLimit ==
    \E user_id \in Users :
        \E limit \in Credits(user_id) :
            /\ RateEntry(risk, user_id) # limit
            /\ SetRateLimit(user_id, limit)

NextRiskSetPositionLimit ==
    \E user_id \in LimitedUsers, max_qty \in RiskLimits :
        /\ ~(user_id \in DOMAIN risk.position_limits
             /\ risk.position_limits[user_id] = max_qty)
        /\ SetPositionLimit(user_id, max_qty)

NextRiskCancel == \E id \in Ids : Cancel(Symbol, id)

NextRisk ==
    \/ NextRiskSubmit
    \/ NextRiskCancel
    \/ NextRiskSetRateLimit
    \/ NextRiskSetPositionLimit
    \/ Return

SpecRisk == Init /\ [][NextRisk]_vars

Rejections == {"PriceOutOfRange", "PositionLimit", "RateLimit"}

\* ------------------------------------------------------------------ C7

\* C7: a rejected submission does not touch the book.  When submit returns
\* PriceOutOfRange, PositionLimit or RateLimit, it returns no fill and the book
\* (bids, asks, arena, by_id) is the one before the call, for every order type.
C7_RejectedLeavesBook ==
    (last.op = "submit" /\ last.result \in Rejections) =>
        /\ last.fills = <<>>
        /\ PostBook = last.pre

\* a Limit order that would have traded with the resting order is turned away
\* at the rate gate
C7_Witness ==
    /\ last.op = "submit"
    /\ last.otype = "Limit"
    /\ last.result = "RateLimit"
    /\ RestingCount(last.pre) = 1
    /\ Crosses(last.pre, last.side, last.price)
    /\ \E pl \in Places(last.pre, Opposite(last.side)) :
          OrderAt(last.pre, pl).user_id # last.user_id
    /\ PostBook = last.pre

\* ------------------------------------------------------------------ C8

OffGrid(price, qty) ==
    \/ u64_rem(price) # 0
    \/ u64_rem(qty) # 0
    \/ u64_lt(price, MIN_PRICE)
    \/ u64_gt(price, MAX_PRICE)

OverLimit(rsk, user_id, qty) ==
    user_id \in DOMAIN rsk.position_limits /\ u64_gt(qty, rsk.position_limits[user_id])

NoCredit(rsk, user_id) ==
    user_id \in DOMAIN rsk.rate_limits /\ rsk.rate_limits[user_id] = 0

\* C8: submit's outcome is decided by three checks in a fixed order, for every
\* order type.  PriceOutOfRange iff the price or the quantity is off the grid
\* or the price is out of range; otherwise PositionLimit iff the user has a
\* position limit and qty is strictly greater; otherwise RateLimit iff the
\* user's credit is 0; otherwise Ok.  The position limit is not changed by a
\* submit.
C8_CheckOrder ==
    last.op = "submit" =>
        /\ last.result =
              IF OffGrid(last.price, last.qty) THEN "PriceOutOfRange"
              ELSE IF OverLimit(last.pre_risk, last.user_id, last.qty) THEN "PositionLimit"
              ELSE IF NoCredit(last.pre_risk, last.user_id) THEN "RateLimit"
              ELSE "Ok"
        /\ risk.position_limits = last.pre_risk.position_limits

\* the three conditions hold at once and the first is the one returned
C8_Witness ==
    /\ last.op = "submit"
    /\ last.otype = "Market"
    /\ OffGrid(last.price, last.qty)
    /\ OverLimit(last.pre_risk, last.user_id, last.qty)
    /\ NoCredit(last.pre_risk, last.user_id)
    /\ last.result = "PriceOutOfRange"

\* a quantity equal to the position limit passes, and trades
C8_WitnessAtLimit ==
    /\ last.op = "submit"
    /\ last.user_id \in DOMAIN last.pre_risk.position_limits
    /\ last.qty = last.pre_risk.position_limits[last.user_id]
    /\ last.result = "Ok"
    /\ last.fills # <<>>

\* ------------------------------------------------------------------ SpecRate: the rate credit
\* Two books holding at most MaxRiskResting orders together; every order type
\* on either symbol; credits from 0 to MaxCredit set by the configurator;
\* cancel, modify and snapshot calls in between.

Symbols == {"BTCUSDT", "ETHUSDT"}
RatePrices == {MIN_PRICE, u64_add(MIN_PRICE, U64(1))}
RateQtys == {Units(1)}
RateLimits == {Zero}
SnapshotDepths == {1}

RestingTotal(bs) ==
    Cardinality(UNION {{<<sy, h>> : h \in SlabLive(bs[sy].orders)} : sy \in DOMAIN bs})

\* the credits the configurator sets for a user
RateCredits(user_id) == IF user_id \in LimitedUsers THEN 0..MaxCredit ELSE {MaxCredit}

NextRateSubmit ==
    \E symbol \in Symbols, user_id \in Users, otype \in AllTypes, side \in Sides,
       price \in RatePrices, qty \in RateQtys :
        /\ Submit(symbol, FreshId(symbol), user_id, otype, side, price, qty)
        /\ RestingTotal(books') <= MaxRiskResting

NextRateCancel == \E symbol \in Symbols, id \in Ids : Cancel(symbol, id)

NextRateModify == \E symbol \in Symbols, id \in Ids : Modify(symbol, id, None, None)

NextRateSnapshot ==
    \E symbol \in Symbols, depth \in SnapshotDepths, overflow_checks \in BuildProfiles :
        Snapshot(symbol, depth, overflow_checks)

NextRateSetRateLimit ==
    \E user_id \in Users :
        \E limit \in RateCredits(user_id) :
            /\ RateEntry(risk, user_id) # limit
            /\ SetRateLimit(user_id, limit)

NextRateSetPositionLimit ==
    \E user_id \in LimitedUsers, max_qty \in RateLimits :
        /\ user_id \notin DOMAIN risk.position_limits
        /\ SetPositionLimit(user_id, max_qty)

NextRate ==
    \/ NextRateSubmit
    \/ NextRateCancel
    \/ NextRateModify
    \/ NextRateSnapshot
    \/ NextRateSetRateLimit
    \/ NextRateSetPositionLimit
    \/ Return

SpecRate == Init /\ [][NextRate]_vars

\* ------------------------------------------------------------------ C9

\* the submit reached the rate gate
ReachedGate == last.result \notin {"PriceOutOfRange", "PositionLimit"}

\* C9: rate credit accounting.  A submit that reaches the rate gate with a
\* credit > 0 passes it and lowers the user's credit by exactly one, whatever
\* the order type, the symbol and the outcome; with a credit of 0 it returns
\* RateLimit and the credit stays 0.  A submit turned away before the gate,
\* another user's submit, cancel, modify and snapshot leave the credit as it
\* was.  The credit is never below 0 and only set_rate_limit raises it, so
\* after set_rate_limit(user, k) the credit is k minus the user's submits that
\* passed the gate since, and a submit at the gate returns RateLimit exactly
\* when k of them have passed.
C9_RateCredit ==
    /\ \A u \in DOMAIN risk.rate_limits : risk.rate_limits[u] >= 0
    /\ last.op = "submit" =>
          /\ \A u \in Users \ {last.user_id} :
                /\ u \in DOMAIN risk.rate_limits <=> u \in DOMAIN last.pre_risk.rate_limits
                /\ RateEntry(risk, u) = RateEntry(last.pre_risk, u)
          /\ IF ~ReachedGate
             THEN risk = last.pre_risk
             ELSE IF RateEntry(last.pre_risk, last.user_id) > 0
             THEN /\ last.result # "RateLimit"
                  /\ RateEntry(risk, last.user_id) = RateEntry(last.pre_risk, last.user_id) - 1
             ELSE /\ last.result = "RateLimit"
                  /\ RateEntry(risk, last.user_id) = 0
          /\ (ReachedGate /\ last.user_id \in DOMAIN last.pre_quota) =>
                (last.result = "RateLimit" <=>
                    last.pre_quota[last.user_id].passed = last.pre_quota[last.user_id].limit)
    /\ last.op \in {"cancel", "modify", "snapshot"} => risk = last.pre_risk
    /\ last.op \notin {"none", "set_rate_limit"} =>
          \A u \in Users : RateEntry(risk, u) <= RateEntry(last.pre_risk, u)
    /\ \A u \in DOMAIN quota :
          /\ quota[u].passed <= quota[u].limit
          /\ RateEntry(risk, u) = quota[u].limit - quota[u].passed

\* the credit was set to MaxCredit, MaxCredit submits of the user have passed
\* the gate, and the next one that reaches it is turned away
C9_Witness ==
    /\ last.op = "submit"
    /\ last.result = "RateLimit"
    /\ last.user_id \in DOMAIN last.pre_quota
    /\ last.pre_quota[last.user_id] = [limit |-> MaxCredit, passed |-> MaxCredit]

\* a PostOnly order that crosses is dropped without a word, and debited
C9_WitnessPostOnly ==
    /\ last.op = "submit"
    /\ last.otype = "PostOnly"
    /\ last.result = "Ok"
    /\ Crosses(last.pre, last.side, last.price)
    /\ PostBook = last.pre
    /\ RateEntry(last.pre_risk, last.user_id) = 1
    /\ RateEntry(risk, last.user_id) = 0

\* an FOK order that fails its scan of the book is debited
C9_WitnessFok ==
    /\ last.op = "submit"
    /\ last.otype = "FOK"
    /\ last.symbol = "ETHUSDT"
    /\ last.result = "Ok"
    /\ last.fills = <<>>
    /\ RateEntry(risk, last.user_id) = RateEntry(last.pre_risk, last.user_id) - 1

\* ------------------------------------------------------------------ SpecDup: caller-chosen ids
\* One book; the caller picks any id, also one that is resting; submit,
\* batch_submit, cancel and modify.  The arena holds at most MaxResting records.

DupIds == 1..MaxResting
DupTypes == {"Limit", "IOC"}
DupQtys == {Units(1)}
BatchOrders(user_id) ==
    {[id |-> id, user_id |-> user_id, otype |-> "Limit", side |-> side,
      price |-> MIN_PRICE, qty |-> Units(1)] :
        id \in DupIds, side \in Sides}
\* a batch is an order of each user
Batches ==
    {<<o1, o2>> : o1 \in BatchOrders(MinOf(Users)), o2 \in BatchOrders(MaxOf(Users))}

NextDupSubmit ==
    /\ Funded
    /\ \E id \in DupIds, user_id \in Users, otype \in DupTypes, side \in Sides,
          price \in MatchPrices, qty \in DupQtys :
        /\ Submit(Symbol, id, user_id, otype, side, price, qty)
        /\ reused' <= MaxReuses

NextDupBatchSubmit ==
    /\ Funded
    /\ \E orders \in Batches :
        /\ BatchSubmit(Symbol, orders)
        /\ reused' <= MaxReuses

NextDupCancel == Funded /\ \E id \in DupIds : Cancel(Symbol, id)

NextDupModify ==
    Funded /\ \E id \in DupIds, new_price \in OptPrices : Modify(Symbol, id, new_price, None)

NextDup ==
    \/ NextDupSubmit
    \/ NextDupBatchSubmit
    \/ NextDupCancel
    \/ NextDupModify
    \/ NextSetRateLimit
    \/ Return

SpecDup == Init /\ [][NextDup]_vars

\* ------------------------------------------------------------------ C10

QueuePlaces(book) == Places(book, "Bid") \cup Places(book, "Ask")
QueueHandles(book) == {pl.handle : pl \in QueuePlaces(book)}

\* by_id maps exactly the ids of the resting orders, one-to-one, onto the
\* handles the queues hold; a handle is held once, resolves to a live record,
\* and the record's side and price are those of the level that holds it
IndexIntegrity(book) ==
    /\ \A p1, p2 \in QueuePlaces(book) : p1.handle = p2.handle => p1 = p2
    /\ \A side \in Sides : \A pl \in Places(book, side) :
          /\ SlabContains(book.orders, pl.handle)
          /\ OrderAt(book, pl).side = side
          /\ OrderAt(book, pl).price = pl.price
    /\ SlabLive(book.orders) = QueueHandles(book)
    /\ DOMAIN book.by_id = {SlabGet(book.orders, h).id : h \in SlabLive(book.orders)}
    /\ \A id \in DOMAIN book.by_id :
          /\ book.by_id[id] \in QueueHandles(book)
          /\ SlabContains(book.orders, book.by_id[id])
          /\ SlabGet(book.orders, book.by_id[id]).id = id
    /\ \A i1, i2 \in DOMAIN book.by_id : book.by_id[i1] = book.by_id[i2] => i1 = i2
    /\ {book.by_id[id] : id \in DOMAIN book.by_id} = QueueHandles(book)

\* C10 as stated: book index integrity in every state reachable by submit,
\* batch_submit, cancel and modify with caller-chosen ids, a submit of an id
\* that is still resting included.
C10_IndexIntegrity == \A sy \in DOMAIN books : IndexIntegrity(books[sy])

\* C10 as amended: book index integrity in every state reachable by submit,
\* batch_submit, cancel and modify calls none of which submitted an id that was
\* resting when it ran.
C10_IndexIntegrityFreshIds == reused = 0 => \A sy \in DOMAIN books : IndexIntegrity(books[sy])

\* with fresh ids only: a taker consumed the resting maker, whose record, id
\* and handle left the book
C10_Witness ==
    /\ reused = 0
    /\ last.op = "submit"
    /\ last.fills # <<>>
    /\ RestingCount(last.pre) = 1
    /\ RestingCount(PostBook) = 0
    /\ PostBook.by_id = EmptyMap
    /\ QueuePlaces(PostBook) = {}

\* with fresh ids only: modify moved one of two resting orders to another level
C10_WitnessModify ==
    /\ reused = 0
    /\ last.op = "modify"
    /\ last.symbol \in DOMAIN books
    /\ RestingCount(PostBook) = 2
    /\ PostBook # last.pre
    /\ Cardinality(DOMAIN PostBook.bids \cup DOMAIN PostBook.asks) = 2

\* with fresh ids only: a batch rested two orders
C10_WitnessBatch ==
    /\ reused = 0
    /\ last.op = "batch_submit"
    /\ last.symbol \in DOMAIN books
    /\ RestingCount(last.pre) = 0
    /\ RestingCount(PostBook) = 2

\* ------------------------------------------------------------------ C11

\* the orders resting in a book: the records its queues hold
RestingOrders(book) ==
    {OrderAt(book, pl) : pl \in {q \in QueuePlaces(book) : SlabContains(book.orders, q.handle)}}

\* C11: in every state reachable by submit, batch_submit, cancel and modify,
\* every resting order has remaining > 0 and remaining <= qty.
C11_RemainingPositive ==
    \A sy \in DOMAIN books : \A o \in RestingOrders(books[sy]) :
        u64_gt(o.remaining, Zero) /\ u64_le(o.remaining, o.qty)

\* ------------------------------------------------------------------ C12

NoEmptyLevel(book) ==
    \A side \in Sides : \A p \in DOMAIN SideMap(book, side) : SideMap(book, side)[p] # <<>>

\* C12: in every state reachable by submit, cancel and modify, neither side map
\* holds a price level whose queue is empty: the call that fills or cancels the
\* last order of a level removes the level, also a level emptied in the middle
\* of a match over several levels and a level where own makers were skipped.
C12_NoEmptyLevel == \A sy \in DOMAIN books : NoEmptyLevel(books[sy])

\* a taker emptied two levels in one match, and both are gone
C12_Witness ==
    /\ last.op = "submit"
    /\ Len(last.fills) = 2
    /\ last.fills[1].price # last.fills[2].price
    /\ Cardinality(DOMAIN SideMap(last.pre, Opposite(last.side))) = 2
    /\ DOMAIN SideMap(PostBook, Opposite(last.side)) = {}

\* a taker consumed the other user's maker in a level that also holds its own;
\* the level stays, with the own maker
C12_WitnessSkipped ==
    /\ last.op = "submit"
    /\ Len(last.fills) = 1
    /\ Len(QueueAt(last.pre, Opposite(last.side), last.fills[1].price)) = 2
    /\ Len(QueueAt(PostBook, Opposite(last.side), last.fills[1].price)) = 1
    /\ \E pl \in Places(PostBook, Opposite(last.side)) :
          pl.price = last.fills[1].price /\ OrderAt(PostBook, pl).user_id = last.user_id

\* the cancel of the only order of a level removes the level
C12_WitnessCancel ==
    /\ last.op = "cancel"
    /\ last.returned.some
    /\ RestingCount(last.pre) = 2
    /\ Cardinality(DOMAIN last.pre.bids \cup DOMAIN last.pre.asks) = 2
    /\ Cardinality(DOMAIN PostBook.bids \cup DOMAIN PostBook.asks) = 1

\* ------------------------------------------------------------------ SpecGrid: the grid and the range
\* One book of at most MaxResting orders with fresh ids; PostOnly submits of
\* one user with prices and quantities on and off the grid and the range;
\* cancel; batches of two orders; modify with a price above the range and a
\* quantity off the grid.

GridTypes == {"PostOnly"}
GridOptPrices == {None, Some(u64_add(MAX_PRICE, Units(1)))}
GridOptQtys == {None, Some(u64_add(Units(1), U64(1)))}

\* the id after FreshId the caller numbers the second order of a batch with
SecondFreshId(symbol) ==
    MinOf((Ids \ DOMAIN BookOrNew(symbol).by_id) \ {FreshId(symbol)})

NextGridSubmit ==
    /\ Funded
    /\ \E user_id \in LimitedUsers, otype \in GridTypes, side \in Sides,
          price \in RiskPrices, qty \in RiskQtys :
        /\ Submit(Symbol, FreshId(Symbol), user_id, otype, side, price, qty)

NextGridBatchSubmit ==
    /\ Funded
    /\ \E u1 \in LimitedUsers, u2 \in LimitedUsers, side \in Sides,
          p1 \in RiskPrices, p2 \in RiskPrices :
        /\ RestingCount(BookOrNew(Symbol)) = 0
        /\ BatchSubmit(Symbol,
              <<[id |-> FreshId(Symbol), user_id |-> u1, otype |-> "PostOnly", side |-> side,
                 price |-> p1, qty |-> Units(1)],
                [id |-> SecondFreshId(Symbol), user_id |-> u2, otype |-> "PostOnly",
                 side |-> side, price |-> p2, qty |-> Units(1)]>>)

NextGridModify ==
    Funded /\ \E id \in Ids, new_price \in GridOptPrices, new_qty \in GridOptQtys :
        Modify(Symbol, id, new_price, new_qty)

NextGrid ==
    \/ NextGridSubmit
    \/ NextGridBatchSubmit
    \/ NextCancel
    \/ NextGridModify
    \/ NextSetRateLimit
    \/ Return

SpecGrid == Init /\ [][NextGrid]_vars

\* ------------------------------------------------------------------ C13

OnGrid(o) ==
    /\ u64_ge(o.price, MIN_PRICE)
    /\ u64_le(o.price, MAX_PRICE)
    /\ u64_rem(o.price) = 0
    /\ u64_rem(o.qty) = 0

\* C13 as stated: in every state reachable by submit, batch_submit, cancel and
\* modify, every resting order's price lies in [MIN_PRICE, MAX_PRICE] and its
\* price and qty are multiples of PRECISION.
C13_RestingOnGrid ==
    \A sy \in DOMAIN books : \A o \in RestingOrders(books[sy]) : OnGrid(o)

\* C13 as amended: after a submit, a batch_submit or a cancel, every resting
\* order either has its price in [MIN_PRICE, MAX_PRICE] and its price and qty
\* multiples of PRECISION, or rested before the call with the same price and
\* qty: only modify brings a price or a quantity off the grid or out of the
\* range into the book.
C13_OnlyModifyLeavesGrid ==
    (last.op \in {"submit", "batch_submit", "cancel"} /\ last.symbol \in DOMAIN books) =>
        \A o \in RestingOrders(PostBook) :
            \/ OnGrid(o)
            \/ \E o0 \in RestingOrders(last.pre) :
                  o0.id = o.id /\ o0.price = o.price /\ o0.qty = o.qty

\* a submit at the top of the range rested next to an order that modify had
\* moved above the range
C13_Witness ==
    /\ last.op = "submit"
    /\ last.result = "Ok"
    /\ last.price = MAX_PRICE
    /\ IsResting(PostBook, last.id)
    /\ \E o \in RestingOrders(PostBook) : ~OnGrid(o)
    /\ \A o \in RestingOrders(PostBook) : o.id = last.id => OnGrid(o)

\* ------------------------------------------------------------------ C14

\* the book after the call, or the empty book of a symbol that has none
PostBookOrNew == BookOrNew(last.symbol)

\* the book is book0 less the order held at handle h, which rested on the
\* side and at the price given: the record, its id and its place are gone, a
\* level left empty is gone, and all else is as it was
Removed(book0, book1, id, h, side, price) ==
    LET q0 == QueueAt(book0, side, price)
        q1 == SelectSeq(q0, LAMBDA g : g # h)
    IN /\ Len(q1) = Len(q0) - 1
       /\ SlabLive(book1.orders) = SlabLive(book0.orders) \ {h}
       /\ \A g \in SlabLive(book1.orders) :
             SlabGet(book1.orders, g) = SlabGet(book0.orders, g)
       /\ DOMAIN book1.by_id = DOMAIN book0.by_id \ {id}
       /\ \A i \in DOMAIN book1.by_id : book1.by_id[i] = book0.by_id[i]
       /\ SideMap(book1, Opposite(side)) = SideMap(book0, Opposite(side))
       /\ DOMAIN SideMap(book1, side) =
             IF q1 = <<>> THEN DOMAIN SideMap(book0, side) \ {price}
             ELSE DOMAIN SideMap(book0, side)
       /\ \A p \in DOMAIN SideMap(book1, side) :
             SideMap(book1, side)[p] = IF p = price THEN q1 ELSE SideMap(book0, side)[p]

\* C14: cancel, with ids unique among the resting orders.  cancel(id) of a
\* resting order returns its descriptor with the remaining it has, takes it out
\* of its level's queue, the arena and by_id, removes the level if it is left
\* empty, and leaves the other orders, their queue order and the risk state; a
\* second cancel(id) returns not found.  cancel of an id that is not resting
\* returns not found and changes nothing.
C14_Cancel ==
    last.op = "cancel" =>
        /\ risk = last.pre_risk
        /\ last.returned.some <=> IsResting(last.pre, last.id)
        /\ IF last.returned.some
           THEN LET h == last.pre.by_id[last.id]
                    o == SlabGet(last.pre.orders, h)
                IN /\ o.id = last.id
                   /\ last.returned.val = o
                   /\ Removed(last.pre, PostBook, last.id, h, o.side, o.price)
                   /\ ~cancel(PostBook, last.id).order.some
                   /\ cancel(PostBook, last.id).book = PostBook
           ELSE PostBookOrNew = last.pre

\* the order cancelled is the second of its level and is partly filled
C14_Witness ==
    /\ last.op = "cancel"
    /\ last.returned.some
    /\ u64_lt(last.returned.val.remaining, last.returned.val.qty)
    /\ Len(QueueAt(last.pre, last.returned.val.side, last.returned.val.price)) = 2
    /\ QueueAt(last.pre, last.returned.val.side, last.returned.val.price)[2]
          = last.pre.by_id[last.id]

\* the id cancelled was resting once and is not any more
C14_WitnessNotFound ==
    /\ last.op = "cancel"
    /\ ~last.returned.some
    /\ RestingCount(last.pre) = 1
    /\ PostBook = last.pre

\* ------------------------------------------------------------------ C15

\* the order o as modify is asked to leave it
Modified(o, new_price, new_qty) ==
    [o EXCEPT !.price = IF new_price.some THEN new_price.val ELSE @,
              !.qty = IF new_qty.some THEN new_qty.val ELSE @,
              !.remaining = IF new_qty.some THEN new_qty.val ELSE @]

\* book1 is book0 with the order at handle h taken out of its queue and the
\* order o1 put last in the queue of its price at handle h1, all else as it was
Requeued(book0, book1, h, o1, h1) ==
    LET o == SlabGet(book0.orders, h)
        others == SlabLive(book0.orders) \ {h}
        expected(p) == SelectSeq(QueueAt(book0, o.side, p), LAMBDA g : g # h)
                         \o (IF p = o1.price THEN <<h1>> ELSE <<>>)
    IN /\ h1 \notin others
       /\ SlabLive(book1.orders) = others \cup {h1}
       /\ \A g \in others : SlabGet(book1.orders, g) = SlabGet(book0.orders, g)
       /\ SlabGet(book1.orders, h1) = o1
       /\ DOMAIN book1.by_id = DOMAIN book0.by_id
       /\ \A i \in DOMAIN book1.by_id :
             book1.by_id[i] = IF i = o.id THEN h1 ELSE book0.by_id[i]
       /\ SideMap(book1, Opposite(o.side)) = SideMap(book0, Opposite(o.side))
       /\ DOMAIN SideMap(book1, o.side) =
             {p \in DOMAIN SideMap(book0, o.side) \cup {o1.price} : expected(p) # <<>>}
       /\ \A p \in DOMAIN SideMap(book1, o.side) : SideMap(book1, o.side)[p] = expected(p)

\* C15: modify is cancel plus direct re-add, with ids unique among the resting
\* orders.  modify of a resting order consumes no credit and touches no risk
\* state, trades with nothing whatever the new price, and leaves every other
\* resting order and its place; the order then rests last in the queue at
\* new_price (its old price if none is given) with id, user, side and type as
\* before and qty and remaining both new_qty if given, both as before if not.
\* modify of an id that is not resting changes nothing.
C15_Modify ==
    last.op = "modify" =>
        /\ risk = last.pre_risk
        /\ IF IsResting(last.pre, last.id)
           THEN LET h == last.pre.by_id[last.id]
                    o == SlabGet(last.pre.orders, h)
                IN /\ o.id = last.id
                   /\ \E h1 \in 0..MaxResting :
                         Requeued(last.pre, PostBook, h,
                                  Modified(o, last.new_price, last.new_qty), h1)
           ELSE PostBookOrNew = last.pre

\* the modified bid is moved to a price at or above a resting ask of another
\* user and rests there, nothing traded
C15_Witness ==
    /\ last.op = "modify"
    /\ last.new_price.some
    /\ IsResting(last.pre, last.id)
    /\ \E b \in Places(PostBook, "Bid"), a \in Places(PostBook, "Ask") :
          /\ OrderAt(PostBook, b).id = last.id
          /\ u64_ge(b.price, a.price)
          /\ OrderAt(PostBook, a).user_id # OrderAt(PostBook, b).user_id
          /\ u64_gt(OrderAt(PostBook, a).remaining, Zero)
          /\ u64_gt(OrderAt(PostBook, b).remaining, Zero)

\* modify(id, None, None) of the first of two orders of a level puts it behind
\* the other, partly filled as it was
C15_WitnessPriority ==
    /\ last.op = "modify"
    /\ ~last.new_price.some
    /\ ~last.new_qty.some
    /\ IsResting(last.pre, last.id)
    /\ \E pl \in PlacesOfId(last.pre, last.id) :
          /\ pl.pos = 1
          /\ Len(QueueAt(last.pre, OrderAt(last.pre, pl).side, pl.price)) = 2
          /\ u64_lt(OrderAt(last.pre, pl).remaining, OrderAt(last.pre, pl).qty)
    /\ \E pl \in PlacesOfId(PostBook, last.id) :
          pl.pos = 2 /\ u64_lt(OrderAt(PostBook, pl).remaining, OrderAt(PostBook, pl).qty)

\* ------------------------------------------------------------------ SpecSnap: snapshots
\* One book of at most MaxResting Limit orders with fresh ids, of a little
\* more than a quarter and than a half of u64::MAX, at two prices, and FOK
\* takers of these sizes; cancel; snapshots of depth 0 to MaxResting; every
\* call under either profile.

\* 46116860185 * PRECISION: four of these are more than u64::MAX
QuarterQty == <<461, 16860185, 0>>
\* 92233720370 * PRECISION: two of these are more than u64::MAX
HalfQty == <<922, 33720370, 0>>
SnapQtys == {QuarterQty, HalfQty}
SnapTypes == {"Limit", "FOK"}
SnapDepths == 0..MaxResting

NextSnapSubmit ==
    /\ Funded
    /\ \E user_id \in Users, otype \in SnapTypes, side \in Sides,
          price \in MatchPrices, qty \in SnapQtys :
        /\ Submit(Symbol, FreshId(Symbol), user_id, otype, side, price, qty)

NextSnapshot ==
    Funded /\ \E depth \in SnapDepths, overflow_checks \in BuildProfiles :
        Snapshot(Symbol, depth, overflow_checks)

NextSnap ==
    \/ NextSnapSubmit
    \/ NextCancel
    \/ NextSnapshot
    \/ NextSetRateLimit
    \/ Return

SpecSnap == Init /\ [][NextSnap]_vars

\* ------------------------------------------------------------------ C16

RECURSIVE RemainingOf(_, _)
\* the sum of remaining over the orders at a set of places
RemainingOf(book, places) ==
    IF places = {} THEN Zero
    ELSE LET pl == CHOOSE x \in places : TRUE
         IN u64_add(OrderAt(book, pl).remaining, RemainingOf(book, places \ {pl}))

\* rows are the min(depth, number of levels) best levels of the side, best
\* first, each with the sum of remaining of the orders resting at its price
SnapshotOf(book, side, depth, rows) ==
    LET levels == DOMAIN SideMap(book, side)
        better(p, q) == IF side = "Bid" THEN u64_gt(p, q) ELSE u64_lt(p, q)
    IN /\ Len(rows) = Min2(depth, Cardinality(levels))
       /\ \A i \in 1..Len(rows) :
             /\ rows[i][1] \in levels
             /\ rows[i][2] = RemainingOf(book, {pl \in Places(book, side) :
                                                    pl.price = rows[i][1]})
             /\ \A j \in 1..Len(rows) : i < j => better(rows[i][1], rows[j][1])
             /\ \A p \in levels \ {rows[j][1] : j \in 1..Len(rows)} : better(rows[i][1], p)

\* C16: L2 snapshot.  In every reachable state and for every depth,
\* get_l2_snapshot returns for each side the min(depth, number of levels) best
\* levels, bids strictly decreasing and asks strictly increasing in price, each
\* with the sum of remaining of the orders resting at that price on that side,
\* and changes no state.
C16_Snapshot ==
    (last.op = "snapshot" /\ last.symbol \in DOMAIN books) =>
        /\ ~panicked
        /\ last.returned.some
        /\ SnapshotOf(last.pre, "Bid", last.depth, last.returned.val.bids)
        /\ SnapshotOf(last.pre, "Ask", last.depth, last.returned.val.asks)
        /\ PostBook = last.pre
        /\ risk = last.pre_risk

\* the level sums of the book before the call fit a u64
LevelSumsFit ==
    \A side \in Sides : \A p \in DOMAIN SideMap(last.pre, side) :
        ~level_overflows(last.pre, SideMap(last.pre, side)[p])


\* ------------------------------------------------------------------ batches and single submits

BatchFirstUsers == {1}
BatchFirstPrices == {Zero, Units(2)}
BatchSecondTypes == {"Limit", "IOC"}

\* the batches of a caller that numbers its orders with ids that are not
\* resting: the first order may be off the price range
FreshBatches(symbol) ==
    {<<[id |-> FreshId(symbol), user_id |-> u1, otype |-> "Limit", side |-> s1,
        price |-> p1, qty |-> Units(1)],
       [id |-> SecondFreshId(symbol), user_id |-> u2, otype |-> t2, side |-> s2,
        price |-> p2, qty |-> Units(1)]>> :
        u1 \in BatchFirstUsers, s1 \in Sides, p1 \in BatchFirstPrices,
        u2 \in Users, t2 \in BatchSecondTypes, s2 \in Sides, p2 \in MatchPrices}

\* the configurator tops up the second user before a batch, and the first
\* user whenever its credit is used up
BatchFunded ==
    /\ \A u \in Users : u \in DOMAIN risk.rate_limits
    /\ risk.rate_limits[1] >= MaxCredit - 1
    /\ risk.rate_limits[2] = MaxCredit

NextBatchSubmit ==
    \E symbol \in Symbols :
        /\ Cardinality(Ids \ DOMAIN BookOrNew(symbol).by_id) >= 2
        /\ BatchFunded
        /\ \E orders \in FreshBatches(symbol) : BatchSubmit(symbol, orders)

NextBatchSingleSubmit ==
    /\ Funded
    /\ \E user_id \in Users, side \in Sides, price \in BatchFirstPrices :
        /\ Submit(Symbol, FreshId(Symbol), user_id, "Limit", side, price, Units(1))

NextBatch ==
    \/ NextBatchSingleSubmit
    \/ NextBatchSubmit
    \/ NextCancel
    \/ NextSetRateLimit
    \/ Return

SpecBatch == Init /\ [][NextBatch]_vars

\* ------------------------------------------------------------------ C17

RECURSIVE OneByOne(_, _, _, _)
\* the orders submitted one by one through submit, each from the book and
\* risk state the one before it left, all in one build: [results, book, risk]
OneByOne(book, rsk, orders, overflow_checks) ==
    IF orders = <<>>
    THEN [results |-> <<>>, book |-> book, risk |-> rsk]
    ELSE LET o == Head(orders)
             r == submit(book, rsk, o.id, o.user_id, o.otype, o.side, o.price, o.qty,
                         overflow_checks)
             rest == OneByOne(r.book, r.risk, Tail(orders), overflow_checks)
         IN [rest EXCEPT !.results = <<[result |-> r.result, fills |-> r.fills]>> \o @]

\* C17: batch submission.  batch_submit on a symbol whose book exists returns
\* one result per order, in input order, each equal to what the same orders
\* submitted one by one through submit from the same starting state return, and
\* ends in the same book and risk state; a rejected order does not stop the
\* later ones.  On a symbol that has no book it returns an empty list, creates
\* no book and changes no book or risk state, whereas submit on such a symbol
\* creates the book first.
C17_BatchOneByOne ==
    /\ (last.op = "batch_submit" /\ ~panicked) =>
          IF last.symbol \in DOMAIN last.pre_books
          THEN \E overflow_checks \in BuildProfiles :
               LET s == OneByOne(last.pre_books[last.symbol], last.pre_risk, last.orders,
                                 overflow_checks)
               IN /\ Len(last.results) = Len(last.orders)
                  /\ last.results = s.results
                  /\ books = MapPut(last.pre_books, last.symbol, s.book)
                  /\ risk = s.risk
          ELSE /\ last.results = <<>>
               /\ books = last.pre_books
               /\ risk = last.pre_risk
    /\ last.op = "submit" => last.symbol \in DOMAIN books

\* a batch whose first order was rejected and whose second one traded
C17_Witness ==
    /\ last.op = "batch_submit"
    /\ ~panicked
    /\ last.symbol \in DOMAIN last.pre_books
    /\ Len(last.results) = 2
    /\ last.results[1].result = "PriceOutOfRange"
    /\ last.results[2].result = "Ok"
    /\ last.results[2].fills # <<>>

\* a batch whose second order ran out of the credit the first one used
C17_WitnessRateLimit ==
    /\ last.op = "batch_submit"
    /\ ~panicked
    /\ Len(last.results) = 2
    /\ last.results[1].result = "Ok"
    /\ last.results[2].result = "RateLimit"
    /\ RestingCount(books[last.symbol]) = RestingCount(last.pre) + 1

\* a batch on a symbol without a book, next to a book that holds orders
C17_WitnessUnknown ==
    /\ last.op = "batch_submit"
    /\ last.symbol \notin DOMAIN last.pre_books
    /\ last.symbol \notin DOMAIN books
    /\ last.orders # <<>>
    /\ \E s \in DOMAIN books : RestingCount(books[s]) > 0

\* a rejected submit on a symbol without a book left an empty book behind
C17_WitnessCreates ==
    /\ last.op = "submit"
    /\ last.symbol \notin DOMAIN last.pre_books
    /\ last.result = "PriceOutOfRange"
    /\ last.symbol \in DOMAIN books
    /\ books[last.symbol] = OrderBookNew

\* ------------------------------------------------------------------ C18

\* the makers whose price the taker of the last call accepts, its own included
AcceptablePlaces ==
    {e \in Places(last.pre, Opposite(last.side)) :
        Acceptable(last.otype, last.side, last.price, e.price)}

\* what a fill left of its maker: gone from the book when the fill took all it
\* had left, else resting in its place with remaining reduced by the fill
Consumed(fill) ==
    LET e == MakerPlace(fill)
        o == OrderAt(last.pre, e)
    IN IF fill.qty = o.remaining
       THEN ~IsResting(PostBook, o.id) /\ o.id \notin DOMAIN PostBook.by_id
       ELSE /\ e.handle \in SeqRange(QueueAt(PostBook, Opposite(last.side), e.price))
            /\ SlabGet(PostBook.orders, e.handle) =
                   [o EXCEPT !.remaining = u64_sub(o.remaining, fill.qty)]

\* the pre-scan passed on quantity that the taker's own user holds
PassedOnOwn ==
    /\ u64_ge(RemainingOf(last.pre, AcceptablePlaces), last.qty)
    /\ u64_lt(RemainingOf(last.pre, Eligible(last.pre, last.otype, last.side,
                                             last.user_id, last.price)), last.qty)

\* C18: the FOK pre-scan ignores self-trade prevention.  An FOK that passed
\* the gates is matched exactly when the acceptable resting quantity, the
\* taker's own included, covers qty; it is then filled for what the other
\* users hold of it, up to qty, so that a pre-scan that passed only on the
\* taker's own quantity is followed by fills totalling strictly less than qty
\* (possibly none); the shortfall is not rested, and every maker that was hit
\* is left partially or fully consumed.
C18_FokPreScanIgnoresStp ==
    (SubmitOk /\ last.otype = "FOK") =>
        LET avail == RemainingOf(last.pre, AcceptablePlaces)
            tradable == RemainingOf(last.pre, Eligible(last.pre, last.otype, last.side,
                                                       last.user_id, last.price))
        IN /\ u64_lt(avail, last.qty) => last.fills = <<>> /\ PostBook = last.pre
           /\ u64_ge(avail, last.qty) =>
                  FillTotal(last.fills) = u64_min(last.qty, tradable)
           /\ PassedOnOwn => u64_lt(FillTotal(last.fills), last.qty)
           /\ ~IsResting(PostBook, last.id)
           /\ last.id \notin DOMAIN PostBook.by_id
           /\ \A k \in 1..Len(last.fills) : Consumed(last.fills[k])

\* an FOK for two units that passed the pre-scan on one unit of its own user
\* and one of another user: it is filled for one unit, the maker that was hit
\* is gone, its own maker rests, and the second unit is dropped
C18_Witness ==
    /\ SubmitOk
    /\ last.otype = "FOK"
    /\ PassedOnOwn
    /\ Len(last.fills) = 1
    /\ u64_lt(Zero, FillTotal(last.fills))
    /\ u64_lt(FillTotal(last.fills), last.qty)
    /\ ~IsResting(PostBook, last.id)
    /\ ~IsResting(PostBook, last.fills[1].maker_id)
    /\ RestingCount(PostBook) = RestingCount(last.pre) - 1

\* an FOK that passed the pre-scan on its own user's quantity alone: no fill
C18_WitnessNoFill ==
    /\ SubmitOk
    /\ last.otype = "FOK"
    /\ PassedOnOwn
    /\ last.fills = <<>>
    /\ PostBook = last.pre
    /\ RestingCount(last.pre) > 0

\* ------------------------------------------------------------------ C19

\* C19: uncrossed book.  In every state of a book reachable using only submit,
\* batch_submit and cancel (no modify), every resting bid price is strictly
\* lower than every resting ask price.
C19_Uncrossed ==
    \A s \in DOMAIN books :
        \A b \in DOMAIN books[s].bids : \A a \in DOMAIN books[s].asks : u64_lt(b, a)

\* the bids and asks that stand crossed belong to one user
CrossedOnlyWithOwn ==
    \A s \in DOMAIN books :
        \A b \in Places(books[s], "Bid") : \A a \in Places(books[s], "Ask") :
            u64_ge(b.price, a.price) =>
                OrderAt(books[s], b).user_id = OrderAt(books[s], a).user_id

\* ------------------------------------------------------------------ C20

\* C20: matching runs to exhaustion.  After a Market, Limit or IOC submit that
\* passed validation and the risk gate and whose fills total less than qty, no
\* eligible maker is left: no opposite-side order with remaining > 0 of another
\* user rests at a price the taker accepts (any price for Market; at or below
\* a bid's limit, at or above an ask's limit for Limit and IOC).
C20_Exhaustion ==
    (SubmitOk /\ last.otype \in {"Market", "Limit", "IOC"}
              /\ u64_lt(FillTotal(last.fills), last.qty)) =>
        \A e \in Eligible(PostBook, last.otype, last.side, last.user_id, last.price) :
            OrderAt(PostBook, e).remaining = Zero

\* a taker filled in part that stopped at the price guard: the eligible maker
\* is gone and a maker beyond the taker's limit rests
C20_Witness ==
    /\ SubmitOk
    /\ last.otype \in {"Limit", "IOC"}
    /\ last.fills # <<>>
    /\ u64_lt(FillTotal(last.fills), last.qty)
    /\ Eligible(last.pre, last.otype, last.side, last.user_id, last.price) # {}
    /\ \E e \in Places(PostBook, Opposite(last.side)) :
          /\ OrderAt(PostBook, e).user_id # last.user_id
          /\ ~Acceptable(last.otype, last.side, last.price, e.price)

\* a Market taker that walked the opposite side to its end
C20_WitnessMarket ==
    /\ SubmitOk
    /\ last.otype = "Market"
    /\ last.fills # <<>>
    /\ u64_lt(FillTotal(last.fills), last.qty)
    /\ Places(PostBook, Opposite(last.side)) = {}


\* ------------------------------------------------------------------ orders of quantity zero

ZeroTypes == {"PostOnly", "Limit"}
ZeroQtys == {Zero, Units(1)}
ZeroOptQtys == {None, Some(Zero)}

NextZeroSubmit ==
    /\ Funded
    /\ \E user_id \in Users, otype \in ZeroTypes, side \in Sides,
          price \in MatchPrices, qty \in ZeroQtys :
        /\ Submit(Symbol, FreshId(Symbol), user_id, otype, side, price, qty)

NextZeroModify ==
    Funded /\ \E id \in Ids, new_qty \in ZeroOptQtys :
        Modify(Symbol, id, None, new_qty)

NextZero == NextZeroSubmit \/ NextCancel \/ NextZeroModify \/ NextSetRateLimit \/ Return

SpecZero == Init /\ [][NextZero]_vars

\* ------------------------------------------------------------------ C21

\* the makers of the book before the call that the call took out of the book
RemovedMakers ==
    {e \in Places(last.pre, Opposite(last.side)) :
        ~IsResting(PostBook, OrderAt(last.pre, e).id)}

\* C21: positive fills.  Every fill emitted by a submit has qty > 0, and a
\* maker is removed from the book by matching only after a fill of positive
\* quantity has brought its remaining to 0.
C21_PositiveFills ==
    SubmitOk =>
        /\ \A k \in 1..Len(last.fills) : u64_gt(last.fills[k].qty, Zero)
        /\ \A e \in RemovedMakers :
              \E k \in 1..Len(last.fills) :
                  /\ last.fills[k].maker_id = OrderAt(last.pre, e).id
                  /\ u64_gt(last.fills[k].qty, Zero)
                  /\ last.fills[k].qty = OrderAt(last.pre, e).remaining

\* every order resting before the call had something left
PreRemainingPositive ==
    \A side \in Sides : \A e \in Places(last.pre, side) :
        u64_gt(OrderAt(last.pre, e).remaining, Zero)

====
